---- MODULE Spec2Model ----
(***************************************************************************)
(* Chart computation engine of astro-gpt-api                               *)
(* (src/backend/astro_engine/engine_se.py, called from                     *)
(* src/backend/api/main.py).                                               *)
(*                                                                         *)
(* Angles are exact integers counted in units of 1e-4 degree (the size of  *)
(* _EPS_DEG), so 360 degrees is 3,600,000 units.  Python's float           *)
(* arithmetic is modelled by exact arithmetic on this grid.                *)
(***************************************************************************)
EXTENDS Integers, Sequences, FiniteSets, TLC

\* d whole degrees, in units of 1e-4 degree
Deg(d) == d * 10000

----------------------------------------------------------------------------
(* Module constants                                                        *)

SIGNS ==
  << "Aries", "Taurus", "Gemini", "Cancer", "Leo", "Virgo",
     "Libra", "Scorpio", "Sagittarius", "Capricorn", "Aquarius", "Pisces" >>

\* the names of PLANETS, in list order
PLANETS ==
  << "Sun", "Moon", "Mercury", "Venus", "Mars", "Jupiter", "Saturn",
     "Uranus", "Neptune", "Pluto", "True Node" >>

\* variant: the Quincunx angle mistyped as 125.0
Mut_MAJOR_ASPECTS_QuincunxAt125 ==
  << [name |-> "Conjunction", angle |-> Deg(0)],
     [name |-> "Opposition",  angle |-> Deg(180)],
     [name |-> "Trine",       angle |-> Deg(120)],
     [name |-> "Square",      angle |-> Deg(90)],
     [name |-> "Sextile",     angle |-> Deg(60)],
     [name |-> "Quincunx",    angle |-> Deg(125)] >>

\* MAJOR_ASPECTS.items(), in dict insertion order
MAJOR_ASPECTS ==
  << [name |-> "Conjunction", angle |-> Deg(0)],
     [name |-> "Opposition",  angle |-> Deg(180)],
     [name |-> "Trine",       angle |-> Deg(120)],
     [name |-> "Square",      angle |-> Deg(90)],
     [name |-> "Sextile",     angle |-> Deg(60)],
     [name |-> "Quincunx",    angle |-> Deg(150)] >>

\* variant: the Trine orb mistyped as 70.0
Mut_ASPECT_ORBS_TrineTypo ==
  [ Conjunction |-> Deg(8), Opposition |-> Deg(8), Trine |-> Deg(70),
    Square |-> Deg(6), Sextile |-> Deg(4), Quincunx |-> Deg(3) ]

ASPECT_ORBS ==
  [ Conjunction |-> Deg(8), Opposition |-> Deg(8), Trine |-> Deg(7),
    Square |-> Deg(6), Sextile |-> Deg(4), Quincunx |-> Deg(3) ]

\* _EPS_DEG = 1e-4 degree = 1 unit
EPS_DEG == 1

Bodies == 1..Len(PLANETS)

----------------------------------------------------------------------------
(* Angle math                                                              *)

Abs(n) == IF n < 0 THEN -n ELSE n

\* a % 360.0 (the result of Python's % has the sign of the divisor)
_wrap360(a) == a % Deg(360)

_shortest_signed_diff(a, b) == ((a - b + Deg(180)) % Deg(360)) - Deg(180)

_sign_of(lon) == SIGNS[(_wrap360(lon) \div Deg(30)) + 1]

\* round(x, 2) of an exact value of x units: to the nearest 0.01 degree
\* (100 units), a tie going to the even hundredth
Round2(x) ==
  LET q == x \div 100
      r == x % 100
  IN  IF r < 50 THEN q * 100
      ELSE IF r > 50 THEN (q + 1) * 100
      ELSE IF q % 2 = 0 THEN q * 100 ELSE (q + 1) * 100

----------------------------------------------------------------------------
(* Motion classifier                                                       *)

\* variant: plain subtraction in place of the shortest signed difference
Mut_motion_sign_PlainDifference(raw_m, raw_p) ==
  (raw_p % Deg(360)) - (raw_m % Deg(360))

\* raw_m, raw_p: what swe.calc_ut answers at jd_ut - 12h and jd_ut + 12h
_motion_sign(raw_m, raw_p) ==
  LET lon_m == raw_m % Deg(360)
      lon_p == raw_p % Deg(360)
  IN  _shortest_signed_diff(lon_p, lon_m)

_is_retrograde(raw_m, raw_p) ==
  LET s == _motion_sign(raw_m, raw_p)
  IN  IF s > EPS_DEG THEN "direct"
      ELSE IF s < -EPS_DEG THEN "retrograde"
      ELSE "stationary"

----------------------------------------------------------------------------
(* House locator                                                           *)

\* the loop of house_of from index i on (0-based, as in the source);
\* cusps[n] of the source is cusps[n + 1] here.  Reading past the end of
\* cusps raises IndexError.
RECURSIVE HouseScan(_, _, _)
HouseScan(cusps, x, i) ==
  IF i = 12 THEN [exc |-> "", val |-> 12]
  ELSE IF i + 1 > Len(cusps) \/ ((i + 1) % 12) + 1 > Len(cusps)
       THEN [exc |-> "IndexError", val |-> 0]
  ELSE LET c1 == cusps[i + 1] % Deg(360)
           c2 == cusps[((i + 1) % 12) + 1] % Deg(360)
           inside == IF c1 <= c2 THEN (x >= c1) /\ (x < c2)
                                 ELSE (x >= c1) \/ (x < c2)
       IN  IF inside THEN [exc |-> "", val |-> i + 1]
                     ELSE HouseScan(cusps, x, i + 1)

\* variant: the longitude is not normalised first
Mut_house_of_NoWrap(cusps, l) == HouseScan(cusps, l, 0)

\* variant: a longitude on a cusp goes to the house that ends there
RECURSIVE MutHouseScanUpperClosed(_, _, _)
MutHouseScanUpperClosed(cusps, x, i) ==
  IF i = 12 THEN [exc |-> "", val |-> 12]
  ELSE IF i + 1 > Len(cusps) \/ ((i + 1) % 12) + 1 > Len(cusps)
       THEN [exc |-> "IndexError", val |-> 0]
  ELSE LET c1 == cusps[i + 1] % Deg(360)
           c2 == cusps[((i + 1) % 12) + 1] % Deg(360)
           inside == IF c1 <= c2 THEN (x > c1) /\ (x <= c2)
                                 ELSE (x > c1) \/ (x <= c2)
       IN  IF inside THEN [exc |-> "", val |-> i + 1]
                     ELSE MutHouseScanUpperClosed(cusps, x, i + 1)

Mut_house_of_UpperClosed(cusps, l) ==
  MutHouseScanUpperClosed(cusps, _wrap360(l), 0)

house_of(cusps, l) == HouseScan(cusps, _wrap360(l), 0)

----------------------------------------------------------------------------
(* Aspect finder                                                           *)

\* variant: orb < max_orb in place of orb <= max_orb
Mut_PairAspects_StrictOrb(lon, i, j) ==
  LET diff == Abs(_shortest_signed_diff(lon[i], lon[j]))
      hit(k) == Abs(diff - k.angle) < ASPECT_ORBS[k.name]
      m == SelectSeq(MAJOR_ASPECTS, hit)
  IN  [n \in 1..Len(m) |->
         [a |-> PLANETS[i], asp |-> m[n].name, b |-> PLANETS[j],
          orb |-> Round2(Abs(diff - m[n].angle))]]

\* the body of the pair loop: the matches of bodies i < j, in catalogue order
PairAspects(lon, i, j) ==
  LET diff == Abs(_shortest_signed_diff(lon[i], lon[j]))
      hit(k) == Abs(diff - k.angle) <= ASPECT_ORBS[k.name]
      m == SelectSeq(MAJOR_ASPECTS, hit)
  IN  [n \in 1..Len(m) |->
         [a |-> PLANETS[i], asp |-> m[n].name, b |-> PLANETS[j],
          orb |-> Round2(Abs(diff - m[n].angle))]]

\* the inner loop over j, from j on, for the body i
RECURSIVE InnerLoop(_, _, _)
InnerLoop(lon, i, j) ==
  IF j > Len(PLANETS) THEN << >>
  ELSE PairAspects(lon, i, j) \o InnerLoop(lon, i, j + 1)

\* the outer loop over i, from i on; its inner loop starts at i + 1
RECURSIVE ScanPairs(_, _)
ScanPairs(lon, i) ==
  IF i > Len(PLANETS) THEN << >>
  ELSE InnerLoop(lon, i, i + 1) \o ScanPairs(lon, i + 1)

\* variant: the inner loop runs over every other body, not only the later ones
RECURSIVE MutInnerLoopAll(_, _, _)
MutInnerLoopAll(lon, i, j) ==
  IF j > Len(PLANETS) THEN << >>
  ELSE IF i = j THEN MutInnerLoopAll(lon, i, j + 1)
  ELSE PairAspects(lon, i, j) \o MutInnerLoopAll(lon, i, j + 1)

RECURSIVE MutScanAllPairs(_, _)
MutScanAllPairs(lon, i) ==
  IF i > Len(PLANETS) THEN << >>
  ELSE MutInnerLoopAll(lon, i, 1) \o MutScanAllPairs(lon, i + 1)

Mut_find_major_aspects_AllOrderedPairs(lon) == MutScanAllPairs(lon, 1)

\* lon: the "lon" entry of planet_data, by body index
_find_major_aspects(lon) == ScanPairs(lon, 1)

----------------------------------------------------------------------------
(* Degree strings                                                          *)

\* x / 10000 rounded to an integer as Python's round does (ties to even)
RoundUnits(x) ==
  LET q == x \div 10000
      r == x % 10000
  IN  IF r < 5000 THEN q
      ELSE IF r > 5000 THEN q + 1
      ELSE IF q % 2 = 0 THEN q ELSE q + 1

\* variant: the rounded seconds and the minutes are printed without carrying
Mut_deg_to_dms_str_NoCarry(deg) ==
  LET d0 == deg \div 10000
      m_float == (deg - d0 * 10000) * 60
      m0 == m_float \div 10000
      s0 == RoundUnits((m_float - m0 * 10000) * 60)
  IN  << d0, m0, s0 >>

\* the string f"{d}°{m:02d}'{s:02d}" as its three numbers << d, m, s >>
_deg_to_dms_str(deg) ==
  LET d0 == deg \div 10000
      m_float == (deg - d0 * 10000) * 60
      m0 == m_float \div 10000
      s0 == RoundUnits((m_float - m0 * 10000) * 60)
      s1 == IF s0 = 60 THEN 0 ELSE s0
      m1 == IF s0 = 60 THEN m0 + 1 ELSE m0
      m2 == IF m1 = 60 THEN 0 ELSE m1
      d2 == IF m1 = 60 THEN d0 + 1 ELSE d0
  IN  << d2, m2, s1 >>

----------------------------------------------------------------------------
(* Report text                                                             *)
(* A string is the sequence of its pieces: a piece is a line break or a    *)
(* run of text that neither starts nor ends with white space.  The empty   *)
(* string is the empty sequence.                                           *)

NL == [kind |-> "nl"]
Txt(s) == << [kind |-> "text", s |-> s] >>

\* "\n".join(parts)
RECURSIVE JoinNL(_)
JoinNL(parts) ==
  IF Len(parts) = 0 THEN << >>
  ELSE IF Len(parts) = 1 THEN parts[1]
  ELSE parts[1] \o << NL >> \o JoinNL(Tail(parts))

RECURSIVE LStrip(_)
LStrip(s) ==
  IF Len(s) > 0 /\ s[1].kind = "nl" THEN LStrip(Tail(s)) ELSE s

RECURSIVE RStrip(_)
RStrip(s) ==
  IF Len(s) > 0 /\ s[Len(s)].kind = "nl"
  THEN RStrip(SubSeq(s, 1, Len(s) - 1)) ELSE s

\* str.strip()
Strip(s) == RStrip(LStrip(s))

_fmt_header ==
  JoinNL(<< Txt("Astrological Data used for Personal Portrait Short Horoscope"),
            Txt("for {name} ({sex})"),
            Txt("born on {date_str} local time: U.T.:"),
            Txt("in {place_str} sid. time:"),
            << >> >>)

_fmt_planets(planet_data) ==
  LET header == << Txt("Planetary positions"), Txt("planet sign degree motion") >>
      rows == [b \in 1..Len(PLANETS) |->
                 << [kind |-> "planet", name |-> PLANETS[b],
                     sign |-> planet_data[b].sign,
                     degree_str |-> planet_data[b].degree_str,
                     house |-> planet_data[b].house,
                     motion |-> planet_data[b].motion] >>]
  IN  JoinNL(header \o rows
             \o << Txt("Planets at the end of a house are interpreted in the next house.") >>)

HouseRow(label, sign, degree_str) ==
  << [kind |-> "house", label |-> label, sign |-> sign,
      degree_str |-> degree_str] >>

SignIndex(sign) == CHOOSE n \in 1..12 : SIGNS[n] = sign

\* variant: the Descendant row takes the sign of the 7th cusp
Mut_fmt_houses_DescendantOwnSign(pt) ==
  LET h == pt.HOUSES
  IN  JoinNL(<< << >>, Txt("House positions (Placidus)"),
                HouseRow("Ascendant", pt.ASC.sign, pt.ASC.degree_str),
                HouseRow("2nd House", h[2].sign, h[2].degree_str),
                HouseRow("3rd House", h[3].sign, h[3].degree_str),
                HouseRow("Imum Coeli", pt.MC.sign, pt.MC.degree_str),
                HouseRow("5th House", h[5].sign, h[5].degree_str),
                HouseRow("6th House", h[6].sign, h[6].degree_str),
                HouseRow("Descendant", h[7].sign, h[7].degree_str),
                HouseRow("8th House", h[8].sign, h[8].degree_str),
                HouseRow("9th House", h[9].sign, h[9].degree_str),
                HouseRow("Medium Coeli", pt.MC.sign, pt.MC.degree_str),
                HouseRow("11th House", h[11].sign, h[11].degree_str),
                HouseRow("12th House", h[12].sign, h[12].degree_str) >>)

\* pt: the _ASC, _MC and _HOUSES entries of planet_data
_fmt_houses(pt) ==
  LET h == pt.HOUSES
  IN  JoinNL(<< << >>, Txt("House positions (Placidus)"),
                HouseRow("Ascendant", pt.ASC.sign, pt.ASC.degree_str),
                HouseRow("2nd House", h[2].sign, h[2].degree_str),
                HouseRow("3rd House", h[3].sign, h[3].degree_str),
                HouseRow("Imum Coeli", pt.MC.sign, pt.MC.degree_str),
                HouseRow("5th House", h[5].sign, h[5].degree_str),
                HouseRow("6th House", h[6].sign, h[6].degree_str),
                HouseRow("Descendant",
                         SIGNS[((SignIndex(pt.ASC.sign) - 1 + 6) % 12) + 1],
                         h[7].degree_str),
                HouseRow("8th House", h[8].sign, h[8].degree_str),
                HouseRow("9th House", h[9].sign, h[9].degree_str),
                HouseRow("Medium Coeli", pt.MC.sign, pt.MC.degree_str),
                HouseRow("11th House", h[11].sign, h[11].degree_str),
                HouseRow("12th House", h[12].sign, h[12].degree_str) >>)

_fmt_aspects(aspects) ==
  IF Len(aspects) = 0 THEN << >>
  ELSE JoinNL(<< << >>, Txt("Major aspects") >>
              \o [n \in 1..Len(aspects) |->
                    << [kind |-> "aspect", a |-> aspects[n].a,
                        asp |-> aspects[n].asp, b |-> aspects[n].b,
                        orb |-> aspects[n].orb] >>]
              \o << Txt("Numbers indicate orb (deviation from the exact aspect angle).") >>)

\* variant: the joined text is not stripped
Mut_ReportText_NoStrip(planet_data, pt, aspects) ==
  JoinNL(<< _fmt_header, _fmt_planets(planet_data), _fmt_houses(pt),
            _fmt_aspects(aspects) >>) \o << NL >>

\* the text compute_chart returns
ReportText(planet_data, pt, aspects) ==
  Strip(JoinNL(<< _fmt_header, _fmt_planets(planet_data), _fmt_houses(pt),
                  _fmt_aspects(aspects) >>)) \o << NL >>

----------------------------------------------------------------------------
(* Inputs of the unit checks                                               *)

\* angles handed to _shortest_signed_diff: the first NAngles of the table
NAngles == 12
AngleTable ==
  << Deg(0), Deg(180), Deg(90), 1, Deg(360) - 1, Deg(270), -Deg(90),
     Deg(540), Deg(8), Deg(96), Deg(186) + 1, Deg(246), Deg(720), -Deg(180) >>
DiffAngles == { AngleTable[n] : n \in 1..NAngles }

\* raw longitudes a provider answers to the two motion probes
NMotion == 8
MotionTable ==
  << Deg(0), 1, 2, Deg(10), Deg(180), Deg(190), Deg(360) - 1, Deg(360) + 1,
     Deg(370), -Deg(5) >>
MotionRaws == { MotionTable[n] : n \in 1..NMotion }

\* house cusps: every mix of two values (duplicate, degenerate and
\* many-times-wrapping cusp data), and Placidus-like cusp sets (twelve
\* distinct cusps in circular order) turned to start anywhere
DupCusps == { Deg(350), Deg(10) }
HouseOffsets ==
  << Deg(0), Deg(25), Deg(55), Deg(90), Deg(125), Deg(155),
     Deg(180), Deg(205), Deg(235), Deg(270), Deg(305), Deg(335) >>
NStarts == 5
StartTable == << Deg(0), Deg(10), Deg(100), Deg(350), Deg(360) - 1, Deg(215) + 5000 >>
WellFormedCusps ==
  { [h \in 1..12 |-> StartTable[n] + HouseOffsets[h]] : n \in 1..NStarts }
CuspSets == [1..12 -> DupCusps] \cup WellFormedCusps

NHouseLons == 9
HouseLonTable ==
  << Deg(0), Deg(10), Deg(10) - 1, Deg(350), Deg(180), Deg(360) - 1,
     Deg(370), Deg(35), -Deg(10), Deg(100) >>
HouseLons == { HouseLonTable[n] : n \in 1..NHouseLons }

\* body longitudes handed to _find_major_aspects (normalised, as
\* _compute_planets stores them): two bodies anywhere on AspectLons, the
\* other nine together at one longitude of RestLons
NAspectLons == 17
AspectLonTable ==
  << Deg(0), Deg(8), Deg(8) + 1, Deg(60), Deg(64) + 1, Deg(90), Deg(96),
     Deg(113), Deg(120), Deg(150), Deg(153) + 1, Deg(172), Deg(180),
     Deg(210), Deg(270), Deg(352) - 1, Deg(88) - 51, Deg(127) + 1 >>
AspectLons == { AspectLonTable[n] : n \in 1..NAspectLons }
RestLons == { Deg(0), Deg(30) }
AspectInputs ==
  { [b \in Bodies |-> IF b = p[1] THEN x ELSE IF b = p[2] THEN y ELSE r] :
      p \in { q \in Bodies \X Bodies : q[1] < q[2] },
      x \in AspectLons, y \in AspectLons, r \in RestLons }

\* stub Ephemeris Providers of a chart request ------------------------------

\* raw body longitudes at jd_ut, by body: the first NBodyStubs of the table.
\* The first has no two bodies in aspect; the others have many aspects and
\* raw values outside [0, 360).
NBodyStubs == 2
BodyStubTable ==
  << << Deg(0), Deg(9), Deg(27), Deg(41), Deg(54) + 5000, Deg(73) + 5000,
        Deg(82) + 5000, Deg(105) + 5000, Deg(138), Deg(304) + 5000,
        Deg(331) + 5000 >>,
     << Deg(0), Deg(450), -Deg(174) + 1, Deg(8), Deg(45), Deg(200),
        Deg(222), Deg(1020), Deg(310), Deg(333), Deg(11) >>,
     << Deg(0), Deg(20), Deg(40), Deg(65) + 5000, Deg(100), Deg(135),
        Deg(170), Deg(205), Deg(240), Deg(275), Deg(310) >> >>

\* change of a body's longitude over 12 hours, by body: the first
\* NDriftStubs of the table
NDriftStubs == 2
DriftStubTable ==
  << [b \in Bodies |-> 5000],
     [b \in Bodies |-> IF b % 3 = 0 THEN 0 ELSE IF b % 3 = 1 THEN -300 ELSE 1],
     [b \in Bodies |-> -Deg(1)] >>

StubCusps(n) == [h \in 1..n |-> Deg(100) + HouseOffsets[((h - 1) % 12) + 1]]
StubAscmc(n) ==
  [h \in 1..n |-> IF h = 1 THEN Deg(100) ELSE IF h = 2 THEN Deg(370) ELSE 0]

\* what swe.houses_ex answers: a tuple of components (seq), or a value that
\* is neither list nor tuple
HousesResults ==
  { [seq |-> TRUE,  items |-> << StubCusps(12), StubAscmc(10) >>],
    [seq |-> TRUE,  items |-> << StubCusps(12), StubAscmc(10), << 0 >> >>],
    [seq |-> FALSE, items |-> << >>],
    [seq |-> TRUE,  items |-> << >>],
    [seq |-> TRUE,  items |-> << StubCusps(12) >>],
    [seq |-> TRUE,  items |-> << StubCusps(12), StubAscmc(10), << 0 >>, << 0 >> >>],
    [seq |-> TRUE,  items |-> << StubCusps(11), StubAscmc(10) >>],
    [seq |-> TRUE,  items |-> << StubCusps(1), StubAscmc(10) >>],
    [seq |-> TRUE,  items |-> << StubCusps(13), StubAscmc(10) >>],
    [seq |-> TRUE,  items |-> << StubCusps(12), StubAscmc(1) >>],
    [seq |-> TRUE,  items |-> << StubCusps(12), StubAscmc(2) >>] }

Providers ==
  [ lon    : { [b \in Bodies |-> BodyStubTable[n][b]] : n \in 1..NBodyStubs },
    drift  : { DriftStubTable[n] : n \in 1..NDriftStubs },
    houses : HousesResults ]


----------------------------------------------------------------------------
(* State                                                                   *)

VARIABLES
  args,         \* arguments of the function under unit check
  ret,          \* its result: [done |-> FALSE] before the call
  pc,           \* where the chart request stands
  prov,         \* the Ephemeris Provider answering this request
  ncalls,       \* provider calls made so far
  nfailed,      \* provider calls that raised
  cusps,        \* _compute_planets: cusps
  ascmc,        \* _compute_planets: ascmc
  idx,          \* index in PLANETS of the body being computed
  cur,          \* lon_deg, sign and house of that body
  planet_data,  \* the entries of planet_data of the bodies done, by body
  points,       \* << >>, then << the _ASC, _MC and _HOUSES entries >>
  aspects,      \* the list _find_major_aspects returned
  exc,          \* the exception that ended the request, "" when none
  response      \* what chart_text_br answers: status and text

unitVars == << args, ret >>
chartVars ==
  << pc, prov, ncalls, nfailed, cusps, ascmc, idx, cur, planet_data, points,
     aspects, exc, response >>
vars == << unitVars, chartVars >>

Pending == [done |-> FALSE]
Returned(v) == [done |-> TRUE, val |-> v]

NoCur == [lon |-> 0, sign |-> "", house |-> 0]
NoResponse == [status |-> 0, text |-> << >>]

\* no chart request is running (the unit checks)
ChartIdle ==
  /\ pc = "idle"
  /\ prov = [lon |-> << >>, drift |-> << >>, houses |-> [seq |-> FALSE, items |-> << >>]]
  /\ ncalls = 0 /\ nfailed = 0
  /\ cusps = << >> /\ ascmc = << >>
  /\ idx = 0 /\ cur = NoCur
  /\ planet_data = << >> /\ points = << >> /\ aspects = << >>
  /\ exc = "" /\ response = NoResponse

----------------------------------------------------------------------------
(* A chart request: chart_text_br calling compute_chart                    *)

Init ==
  /\ args = [fn |-> "none"] /\ ret = Pending
  /\ pc = "julday"
  /\ prov \in Providers
  /\ ncalls = 0 /\ nfailed = 0
  /\ cusps = << >> /\ ascmc = << >>
  /\ idx = 0 /\ cur = NoCur
  /\ planet_data = << >> /\ points = << >> /\ aspects = << >>
  /\ exc = "" /\ response = NoResponse

\* variant: the handler answers 200 with the text built so far
Mut_Raise_AnswersWhatWasBuilt(e) ==
  /\ pc' = "failed"
  /\ exc' = e
  /\ response' = [status |-> 200, text |-> _fmt_header \o << NL >>]

\* an exception leaves compute_chart; chart_text_br answers HTTP 500 with no
\* chart text
Raise(e) ==
  /\ pc' = "failed"
  /\ exc' = e
  /\ response' = [status |-> 500, text |-> << >>]

\* a provider call that raises
ProviderFails ==
  /\ ncalls' = ncalls + 1
  /\ nfailed' = nfailed + 1
  /\ Raise("swe.Error")

\* _to_julday_utc: swe.julday
Julday ==
  /\ pc = "julday"
  /\ \/ /\ ncalls' = ncalls + 1
        /\ pc' = "sidtime"
        /\ UNCHANGED << nfailed, exc, response >>
     \/ ProviderFails
  /\ UNCHANGED << unitVars, prov, cusps, ascmc, idx, cur, planet_data, points,
                  aspects >>

\* swe.sidtime
Sidtime ==
  /\ pc = "sidtime"
  /\ \/ /\ ncalls' = ncalls + 1
        /\ pc' = "houses_ex"
        /\ UNCHANGED << nfailed, exc, response >>
     \/ ProviderFails
  /\ UNCHANGED << unitVars, prov, cusps, ascmc, idx, cur, planet_data, points,
                  aspects >>

\* the cusps and ascmc _compute_planets takes from the answer of
\* swe.houses_ex, or the exception it raises
NormalizeHouses(res) ==
  IF ~res.seq THEN [exc |-> "ValueError", cusps |-> << >>, ascmc |-> << >>]
  ELSE IF Len(res.items) = 3 \/ Len(res.items) = 2
       THEN [exc |-> "", cusps |-> res.items[1], ascmc |-> res.items[2]]
  ELSE IF Len(res.items) = 0
       THEN [exc |-> "IndexError", cusps |-> << >>, ascmc |-> << >>]
  ELSE [exc |-> "", cusps |-> res.items[1],
        ascmc |-> IF Len(res.items) > 1 THEN res.items[2]
                  ELSE [n \in 1..10 |-> 0]]

\* swe.houses_ex and the normalisation of its answer
HousesEx ==
  /\ pc = "houses_ex"
  /\ \/ /\ ncalls' = ncalls + 1
        /\ LET r == NormalizeHouses(prov.houses)
           IN  IF r.exc # ""
               THEN /\ Raise(r.exc)
                    /\ UNCHANGED << nfailed, cusps, ascmc, idx >>
               ELSE /\ cusps' = r.cusps
                    /\ ascmc' = r.ascmc
                    /\ idx' = 1
                    /\ pc' = "calc_ut"
                    /\ UNCHANGED << nfailed, exc, response >>
     \/ /\ ProviderFails
        /\ UNCHANGED << cusps, ascmc, idx >>
  /\ UNCHANGED << unitVars, prov, cur, planet_data, points, aspects >>

\* the loop over PLANETS: swe.calc_ut, _sign_of, house_of of body idx
CalcUt ==
  /\ pc = "calc_ut"
  /\ \/ /\ ncalls' = ncalls + 1
        /\ LET lon_deg == prov.lon[idx] % Deg(360)
               house == house_of(cusps, lon_deg)
           IN  IF house.exc # ""
               THEN /\ Raise(house.exc)
                    /\ UNCHANGED << nfailed, cur >>
               ELSE /\ cur' = [lon |-> lon_deg, sign |-> _sign_of(lon_deg),
                               house |-> house.val]
                    /\ pc' = "probe_minus"
                    /\ UNCHANGED << nfailed, exc, response >>
     \/ /\ ProviderFails
        /\ UNCHANGED cur
  /\ UNCHANGED << unitVars, prov, cusps, ascmc, idx, planet_data, points,
                  aspects >>

\* _motion_sign: swe.calc_ut at jd_ut - _STEP_DAYS
ProbeMinus ==
  /\ pc = "probe_minus"
  /\ \/ /\ ncalls' = ncalls + 1
        /\ pc' = "probe_plus"
        /\ UNCHANGED << nfailed, exc, response >>
     \/ ProviderFails
  /\ UNCHANGED << unitVars, prov, cusps, ascmc, idx, cur, planet_data, points,
                  aspects >>

\* _motion_sign: swe.calc_ut at jd_ut + _STEP_DAYS; then the entry of body idx
\* is stored and the loop goes on
ProbePlus ==
  /\ pc = "probe_plus"
  /\ \/ /\ ncalls' = ncalls + 1
        /\ planet_data' = Append(planet_data,
             [lon |-> cur.lon, sign |-> cur.sign, house |-> cur.house,
              motion |-> _is_retrograde(prov.lon[idx] - prov.drift[idx],
                                        prov.lon[idx] + prov.drift[idx]),
              degree_str |-> _deg_to_dms_str(cur.lon)])
        /\ idx' = idx + 1
        /\ pc' = IF idx = Len(PLANETS) THEN "points" ELSE "calc_ut"
        /\ UNCHANGED << nfailed, exc, response >>
     \/ /\ ProviderFails
        /\ UNCHANGED << planet_data, idx >>
  /\ UNCHANGED << unitVars, prov, cusps, ascmc, cur, points, aspects >>

Point(lon) ==
  [lon |-> lon, sign |-> _sign_of(lon), degree_str |-> _deg_to_dms_str(lon)]

\* the _ASC, _MC and _HOUSES entries of planet_data
StorePoints ==
  /\ pc = "points"
  /\ IF Len(ascmc) < 2 \/ Len(cusps) < 12
     THEN /\ Raise("IndexError")
          /\ UNCHANGED points
     ELSE /\ points' = << [ASC |-> Point(ascmc[1] % Deg(360)),
                           MC |-> Point(ascmc[2] % Deg(360)),
                           HOUSES |-> [h \in 1..12 |->
                                         Point(cusps[h] % Deg(360))]] >>
          /\ pc' = "aspects"
          /\ UNCHANGED << exc, response >>
  /\ UNCHANGED << unitVars, prov, ncalls, nfailed, cusps, ascmc, idx, cur,
                  planet_data, aspects >>

\* aspects = _find_major_aspects(planets)
FindAspects ==
  /\ pc = "aspects"
  /\ aspects' = _find_major_aspects([b \in Bodies |-> planet_data[b].lon])
  /\ pc' = "render"
  /\ UNCHANGED << unitVars, prov, ncalls, nfailed, cusps, ascmc, idx, cur,
                  planet_data, points, exc, response >>

\* the text is put together and chart_text_br answers it
Render ==
  /\ pc = "render"
  /\ response' = [status |-> 200,
                  text |-> ReportText(planet_data, points[1], aspects)]
  /\ pc' = "done"
  /\ UNCHANGED << unitVars, prov, ncalls, nfailed, cusps, ascmc, idx, cur,
                  planet_data, points, aspects, exc >>

Next ==
  \/ Julday \/ Sidtime \/ HousesEx \/ CalcUt \/ ProbeMinus \/ ProbePlus
  \/ StorePoints \/ FindAspects \/ Render

Spec == Init /\ [][Next]_vars

----------------------------------------------------------------------------
(* Unit checks: Init draws the arguments, the action applies the function  *)

InitSignedDiff ==
  /\ args \in [fn : {"_shortest_signed_diff"}, a : DiffAngles, b : DiffAngles]
  /\ ret = Pending
  /\ ChartIdle

CallSignedDiff ==
  /\ args.fn = "_shortest_signed_diff"
  /\ ~ret.done
  /\ ret' = Returned(_shortest_signed_diff(args.a, args.b))
  /\ UNCHANGED << args, chartVars >>

SpecSignedDiff == InitSignedDiff /\ [][CallSignedDiff]_vars

InitMotion ==
  /\ args \in [fn : {"_is_retrograde"}, ipl : Bodies,
               raw_m : MotionRaws, raw_p : MotionRaws]
  /\ ret = Pending
  /\ ChartIdle

CallIsRetrograde ==
  /\ args.fn = "_is_retrograde"
  /\ ~ret.done
  /\ ret' = Returned(_is_retrograde(args.raw_m, args.raw_p))
  /\ UNCHANGED << args, chartVars >>

SpecMotion == InitMotion /\ [][CallIsRetrograde]_vars

InitHouseOf ==
  /\ args \in [fn : {"house_of"}, cusps : CuspSets, l : HouseLons]
  /\ ret = Pending
  /\ ChartIdle

CallHouseOf ==
  /\ args.fn = "house_of"
  /\ ~ret.done
  /\ ret' = Returned(house_of(args.cusps, args.l))
  /\ UNCHANGED << args, chartVars >>

SpecHouseOf == InitHouseOf /\ [][CallHouseOf]_vars

InitAspects ==
  /\ args \in [fn : {"_find_major_aspects"}, lon : AspectInputs]
  /\ ret = Pending
  /\ ChartIdle

CallFindMajorAspects ==
  /\ args.fn = "_find_major_aspects"
  /\ ~ret.done
  /\ ret' = Returned(_find_major_aspects(args.lon))
  /\ UNCHANGED << args, chartVars >>

SpecAspects == InitAspects /\ [][CallFindMajorAspects]_vars

\* Ascendant longitudes handed to _fmt_houses: the start, the middle and the
\* last grid point of every sign, from the first NAscSigns signs on
NAscSigns == 12
AscLons ==
  { Deg(30) * (n - 1) + o : n \in 1..NAscSigns, o \in { 0, Deg(15), Deg(30) - 1 } }

\* the _ASC, _MC and _HOUSES entries _compute_planets stores for the cusps cs
\* and the Ascendant and Midheaven am
PointsOf(cs, am) ==
  [ASC |-> Point(am[1] % Deg(360)),
   MC |-> Point(am[2] % Deg(360)),
   HOUSES |-> [h \in 1..12 |-> Point(cs[h] % Deg(360))]]

InitFmtHouses ==
  /\ args \in [fn : {"_fmt_houses"}, cusps : WellFormedCusps,
               ascmc : { << a, m >> : a \in AscLons, m \in { Deg(10), Deg(200) } }]
  /\ ret = Pending
  /\ ChartIdle

CallFmtHouses ==
  /\ args.fn = "_fmt_houses"
  /\ ~ret.done
  /\ ret' = Returned(_fmt_houses(PointsOf(args.cusps, args.ascmc)))
  /\ UNCHANGED << args, chartVars >>

SpecFmtHouses == InitFmtHouses /\ [][CallFmtHouses]_vars

\* whole degrees of the angles handed to _deg_to_dms_str; every fraction of a
\* degree on the grid is tried with each of the first NDmsWholes of them
NDmsWholes == 4
DmsWholeTable == << 0, 29, 180, 359, 90 >>
DmsAngles ==
  { Deg(DmsWholeTable[n]) + f : n \in 1..NDmsWholes, f \in 0..(Deg(1) - 1) }

InitDms ==
  /\ args \in [fn : {"_deg_to_dms_str"}, deg : DmsAngles]
  /\ ret = Pending
  /\ ChartIdle

CallDegToDmsStr ==
  /\ args.fn = "_deg_to_dms_str"
  /\ ~ret.done
  /\ ret' = Returned(_deg_to_dms_str(args.deg))
  /\ UNCHANGED << args, chartVars >>

SpecDms == InitDms /\ [][CallDegToDmsStr]_vars

\* a raw longitude of the provider: a grid value, or (below) a negative value
\* of magnitude under 2.8e-14 degree such as -1e-20, far below the grid
GridRaw(g) == [grid |-> g, below |-> FALSE]
TinyNegative == [grid |-> 0, below |-> TRUE]

\* raw % 360.0: exact on grid values; for a tiny negative value the float sum
\* raw + 360.0 rounds to 360.0 itself, which is what Python's % returns
FloatMod360(raw) ==
  IF raw.below THEN Deg(360) ELSE raw.grid % Deg(360)

\* raw + 360.0 * n in float arithmetic: a tiny negative value is absorbed by
\* any non-zero multiple of 360
ShiftRaw(raw, n) ==
  IF raw.below /\ n # 0 THEN GridRaw(Deg(360) * n)
  ELSE [grid |-> raw.grid + Deg(360) * n, below |-> raw.below]

\* the entry of planet_data for a body whose raw longitude is raw, with the
\* house cusps cs
StoredBody(raw, cs) ==
  LET lon_deg == FloatMod360(raw)
  IN  [lon |-> lon_deg,
       sign |-> _sign_of(lon_deg),
       house |-> house_of(cs, lon_deg).val,
       degree_str |-> _deg_to_dms_str(lon_deg)]

\* the entry of planet_data for the Ascendant, the Midheaven or a cusp whose
\* raw longitude is raw
StoredPoint(raw) == Point(FloatMod360(raw))

\* raw values of the provider: negative, in range, at and above 360
NRaws == 16
RawTable ==
  << -Deg(720), -Deg(360) - 1, -Deg(360), -Deg(30), -1, 0, 1,
     Deg(30) - 1, Deg(30), Deg(100), Deg(359) + 9999, Deg(360),
     Deg(360) + 1, Deg(725), Deg(99) + 9999, Deg(1079) + 9999, Deg(200) >>
Raws == { GridRaw(RawTable[n]) : n \in 1..NRaws } \cup { TinyNegative }
NShift == 2

InitStore ==
  /\ args \in [fn : {"store"}, raw : Raws, n : (-NShift)..NShift]
  /\ ret = Pending
  /\ ChartIdle

CallStore ==
  /\ args.fn = "store"
  /\ ~ret.done
  /\ ret' = Returned([body |-> StoredBody(args.raw, StubCusps(12)),
                      point |-> StoredPoint(args.raw),
                      shifted |-> StoredBody(ShiftRaw(args.raw, args.n),
                                             StubCusps(12))])
  /\ UNCHANGED << args, chartVars >>

SpecStore == InitStore /\ [][CallStore]_vars

\* Placidus-like cusp sets for the partition check: two shapes (opposite
\* cusps 180 apart), turned to the first NTurns starts of StartTable, and
\* longitudes on, beside and between the cusps of the set
PlacidusOffsets ==
  << Deg(0), Deg(18), Deg(42), Deg(80), Deg(130), Deg(165),
     Deg(180), Deg(198), Deg(222), Deg(260), Deg(310), Deg(345) >>
NTurns == 5
TurnedCusps ==
  { [h \in 1..12 |-> StartTable[n] + o[h]] :
      n \in 1..NTurns, o \in { HouseOffsets, PlacidusOffsets } }
NearCusp == { -1, 0, 1, Deg(7) }

InitHousePartition ==
  /\ \E cs \in TurnedCusps : \E h \in 1..12 : \E d \in NearCusp :
       args = [fn |-> "house_of", cusps |-> cs, l |-> (cs[h] % Deg(360)) + d]
  /\ ret = Pending
  /\ ChartIdle

SpecHousePartition == InitHousePartition /\ [][CallHouseOf]_vars

\* Times are whole minutes here: ut_hours of the source is UtMinutes / 60.

\* _to_julday_utc: ut_hours = hour + minute / 60.0 - tz_offset_hours, with
\* the offset tz in minutes
UtMinutes(hour, minute, tz) == hour * 60 + minute - tz

\* ut_str of compute_chart, f"{ut_h:02d}:{ut_m:02d}", as its two numbers
UtStr(hour, minute, tz) ==
  LET ut == UtMinutes(hour, minute, tz)
      ut_h0 == ut \div 60
      ut_m0 == ut - ut_h0 * 60
      ut_m == IF ut_m0 = 60 THEN 0 ELSE ut_m0
      ut_h == IF ut_m0 = 60 THEN ut_h0 + 1 ELSE ut_h0
  IN  [h |-> ut_h, m |-> ut_m]

\* UTC offsets from -12 to +14 hours, whole and half hours, in minutes
TzOffsets == { 30 * n : n \in (-24)..28 }

InitUt ==
  /\ args \in [fn : {"ut_str"}, hour : 0..23, minute : 0..59, tz : TzOffsets]
  /\ ret = Pending
  /\ ChartIdle

CallUtStr ==
  /\ args.fn = "ut_str"
  /\ ~ret.done
  /\ ret' = Returned(UtStr(args.hour, args.minute, args.tz))
  /\ UNCHANGED << args, chartVars >>

SpecUt == InitUt /\ [][CallUtStr]_vars

----------------------------------------------------------------------------
(* Claims                                                                  *)

\* the interval test of house h for the normalised longitude x, as the
\* specification words it
IntervalTest(cs, x, h) ==
  LET ci == cs[h] % Deg(360)
      cn == cs[(h % 12) + 1] % Deg(360)
  IN  IF ci <= cn THEN ci <= x /\ x < cn ELSE x >= ci \/ x < cn

HousesHolding(cs, x) == { h \in 1..12 : IntervalTest(cs, x, h) }

Min(S) == CHOOSE m \in S : \A n \in S : m <= n

\* C1 as stated: for any 12 cusps and any longitude house_of returns an
\* index in 1..12 that is the lowest-numbered house whose interval test
\* holds for the longitude.
C1_HouseIsFirstHolding ==
  ret.done =>
    LET x == args.l % Deg(360)
    IN  /\ ret.val.exc = ""
        /\ ret.val.val \in 1..12
        /\ IntervalTest(args.cusps, x, ret.val.val)
        /\ \A h \in 1..(ret.val.val - 1) : ~IntervalTest(args.cusps, x, h)

\* C1 amended: house_of returns an index in 1..12: the lowest-numbered
\* house whose interval test holds, and 12 when no house's test holds,
\* which happens exactly when the twelve cusps are all equal modulo 360.
C1_HouseIsFirstHoldingOrFallback ==
  ret.done =>
    LET x == args.l % Deg(360)
        H == HousesHolding(args.cusps, x)
    IN  /\ ret.val.exc = ""
        /\ ret.val.val \in 1..12
        /\ ret.val.val = (IF H # {} THEN Min(H) ELSE 12)
        /\ (H = {}) <=> (\A h \in 1..12 :
                           args.cusps[h] % Deg(360) = args.cusps[1] % Deg(360))

\* C1 witness: a wrap-crossing cusp set (cusp 12 at 350, cusp 1 at 10) with the longitude
\* inside the interval that crosses 0
C1_WitnessWrapCrossing ==
  /\ ret.done
  /\ args.cusps[12] = Deg(350) /\ args.cusps[1] = Deg(10)
  /\ args.l = Deg(0)
  /\ ret.val.val = 12
  /\ HousesHolding(args.cusps, Deg(0)) = {12}

\* C2 as stated: signedDiff(a, b) lies in (-180, +180] and signedDiff(a, a)
\* is 0.
C2_SignedDiffRange ==
  ret.done =>
    /\ -Deg(180) < ret.val /\ ret.val <= Deg(180)
    /\ args.a = args.b => ret.val = 0

\* the catalogue as the claims state it, in degrees
ClaimKinds ==
  << [name |-> "Conjunction", angle |-> 0,   orb |-> 8],
     [name |-> "Opposition",  angle |-> 180, orb |-> 8],
     [name |-> "Trine",       angle |-> 120, orb |-> 7],
     [name |-> "Square",      angle |-> 90,  orb |-> 6],
     [name |-> "Sextile",     angle |-> 60,  orb |-> 4],
     [name |-> "Quincunx",    angle |-> 150, orb |-> 3] >>

\* the separation of two longitudes on the circle, in [0, 180]
Sep(x, y) ==
  LET d == (x - y) % Deg(360)
  IN  IF d <= Deg(180) THEN d ELSE Deg(360) - d

MatchesOf(list, i, j) ==
  { n \in DOMAIN list : list[n].a = PLANETS[i] /\ list[n].b = PLANETS[j] }

\* C3: for every pair of bodies and every kind of the catalogue a match is
\* emitted iff |diff - angle| <= maxOrb (boundary included), diff =
\* |signedDiff| lying in [0, 180]; every emitted orb is in [0, maxOrb].
C3_MatchIffWithinOrb ==
  ret.done =>
    /\ \A i \in Bodies : \A j \in Bodies : i < j =>
         LET diff == Abs(_shortest_signed_diff(args.lon[i], args.lon[j]))
         IN  /\ diff = Sep(args.lon[i], args.lon[j])
             /\ 0 <= diff /\ diff <= Deg(180)
             /\ \A k \in DOMAIN ClaimKinds :
                  (\E n \in MatchesOf(ret.val, i, j) :
                      ret.val[n].asp = ClaimKinds[k].name)
                  <=> Abs(diff - Deg(ClaimKinds[k].angle))
                        <= Deg(ClaimKinds[k].orb)
    /\ \A n \in DOMAIN ret.val :
         /\ ret.val[n].orb >= 0
         /\ \E k \in DOMAIN ClaimKinds :
              /\ ClaimKinds[k].name = ret.val[n].asp
              /\ ret.val[n].orb <= Deg(ClaimKinds[k].orb)

\* C3 witness: a match exactly on its orb boundary beside a pair 0.0001 degree outside
\* the same boundary that has no match
C3_WitnessBoundary ==
  /\ ret.done
  /\ \E n \in DOMAIN ret.val :
       ret.val[n].asp = "Conjunction" /\ ret.val[n].orb = Deg(8)
  /\ \E i \in Bodies : \E j \in Bodies :
       /\ i < j
       /\ Sep(args.lon[i], args.lon[j]) = Deg(8) + 1
       /\ MatchesOf(ret.val, i, j) = {}

\* C4: two bodies separated by exactly a catalogue angle get that kind with
\* orb 0.00 and no other kind.
C4_ExactAngleSingleMatch ==
  ret.done =>
    \A i \in Bodies : \A j \in Bodies : \A k \in DOMAIN ClaimKinds :
      (i < j /\ Sep(args.lon[i], args.lon[j]) = Deg(ClaimKinds[k].angle)) =>
        /\ Cardinality(MatchesOf(ret.val, i, j)) = 1
        /\ \A n \in MatchesOf(ret.val, i, j) :
             ret.val[n].asp = ClaimKinds[k].name /\ ret.val[n].orb = 0

\* C4 witness: one pair exactly 90 apart reported as a Square and another exactly 150
\* apart reported as a Quincunx, both with orb 0
C4_WitnessSquareAndQuincunx ==
  /\ ret.done
  /\ \E i \in Bodies : \E j \in Bodies :
       /\ i < j /\ Sep(args.lon[i], args.lon[j]) = Deg(90)
       /\ \E n \in MatchesOf(ret.val, i, j) :
            ret.val[n].asp = "Square" /\ ret.val[n].orb = 0
  /\ \E i \in Bodies : \E j \in Bodies :
       /\ i < j /\ Sep(args.lon[i], args.lon[j]) = Deg(150)
       /\ \E n \in MatchesOf(ret.val, i, j) :
            ret.val[n].asp = "Quincunx" /\ ret.val[n].orb = 0

BodyIndex(name) == CHOOSE i \in Bodies : PLANETS[i] = name

\* C5: every match (A, kind, B) has A strictly before B in the Body order, no
\* (A, B, kind) appears twice, no pair appears both ways round, and the
\* matches are listed in ascending (index of A, index of B) order.
C5_AspectsOrderedNoDuplicates ==
  ret.done =>
    /\ \A n \in DOMAIN ret.val :
         /\ ret.val[n].a \in { PLANETS[i] : i \in Bodies }
         /\ ret.val[n].b \in { PLANETS[i] : i \in Bodies }
         /\ BodyIndex(ret.val[n].a) < BodyIndex(ret.val[n].b)
    /\ \A m \in DOMAIN ret.val : \A n \in DOMAIN ret.val :
         /\ (m # n) =>
              ~(/\ ret.val[m].a = ret.val[n].a
                /\ ret.val[m].b = ret.val[n].b
                /\ ret.val[m].asp = ret.val[n].asp)
         /\ ~(ret.val[m].a = ret.val[n].b /\ ret.val[m].b = ret.val[n].a)
         /\ (m < n) =>
              \/ BodyIndex(ret.val[m].a) < BodyIndex(ret.val[n].a)
              \/ /\ BodyIndex(ret.val[m].a) = BodyIndex(ret.val[n].a)
                 /\ BodyIndex(ret.val[m].b) <= BodyIndex(ret.val[n].b)

\* C5 witness: a list holding matches of the first and of the last pair of the scan and
\* of pairs in between
C5_WitnessManyPairs ==
  /\ ret.done
  /\ Len(ret.val) >= 40
  /\ ret.val[1].a = "Sun" /\ ret.val[1].b = "Moon"
  /\ ret.val[Len(ret.val)].a = "Pluto" /\ ret.val[Len(ret.val)].b = "True Node"
  /\ \E n \in DOMAIN ret.val : ret.val[n].asp # "Conjunction"

\* C6 as stated: strictly increasing longitude gives direct, strictly
\* decreasing gives retrograde, constant gives stationary.
C6_MotionFollowsTrend ==
  ret.done =>
    /\ args.raw_p > args.raw_m => ret.val = "direct"
    /\ args.raw_p < args.raw_m => ret.val = "retrograde"
    /\ args.raw_p = args.raw_m => ret.val = "stationary"

\* C6 amended: a longitude that grows between the two probes by more than
\* 0.0001 degree and less than 180 degrees gives direct, one that falls by
\* more than 0.0001 degree and at most 180 degrees gives retrograde, a
\* constant one gives stationary.
C6_MotionFollowsTrendBeyondEps ==
  ret.done =>
    LET d == args.raw_p - args.raw_m
    IN  /\ (EPS_DEG < d /\ d < Deg(180)) => ret.val = "direct"
        /\ (EPS_DEG < -d /\ -d <= Deg(180)) => ret.val = "retrograde"
        /\ d = 0 => ret.val = "stationary"

\* C6 witness: a probe pair 0.0002 degree apart across the 360/0 seam, classified direct
C6_WitnessDirectAcrossSeam ==
  /\ ret.done
  /\ args.raw_m = Deg(360) - 1 /\ args.raw_p = Deg(360) + 1
  /\ ret.val = "direct"

\* the answer of the house call is not a (cusps, ascmc) or (cusps, ascmc,
\* extra) structure with exactly 12 cusps and both Ascendant and Midheaven
Malformed(res) ==
  \/ ~res.seq
  \/ Len(res.items) \notin {2, 3}
  \/ Len(res.items[1]) # 12
  \/ Len(res.items[2]) < 2

\* C7 as stated: when the house call answers data of unexpected shape or
\* cardinality the chart computation fails: no value is substituted and no
\* report is produced.
C7_MalformedHousesFail ==
  Malformed(prov.houses) =>
    /\ response.status # 200
    /\ Len(response.text) = 0

RowsOf(text, kind) == SelectSeq(text, LAMBDA t : t.kind = kind)

CompleteReport(text) ==
  /\ Len(RowsOf(text, "planet")) = Len(PLANETS)
  /\ Len(RowsOf(text, "house")) = 12
  /\ text[1].kind = "text"
  /\ text[1].s = "Astrological Data used for Personal Portrait Short Horoscope"

\* C8: if any provider call fails the request fails and no report text,
\* complete or partial, is returned; a report is returned only when every
\* provider call (julday, sidtime, houses, 11 longitudes, 22 motion probes)
\* was made and succeeded.
C8_NoPartialChart ==
  /\ nfailed > 0 =>
       /\ pc = "failed"
       /\ response.status = 500
       /\ Len(response.text) = 0
  /\ pc # "done" => Len(response.text) = 0
  /\ Len(response.text) > 0 =>
       /\ pc = "done" /\ response.status = 200 /\ exc = ""
       /\ nfailed = 0
       /\ ncalls = 3 + 11 + 22
       /\ CompleteReport(response.text)

\* C8 witness: a motion probe fails after five bodies were computed in full
C8_WitnessProbeFails ==
  /\ pc = "failed" /\ exc = "swe.Error"
  /\ nfailed = 1
  /\ ncalls = 3 + 3 * 5 + 2
  /\ Len(planet_data) = 5
  /\ response.status = 500 /\ Len(response.text) = 0

HasText(text, str) ==
  \E n \in DOMAIN text : text[n].kind = "text" /\ text[n].s = str

\* C9: the report holds the 'Major aspects' header and the orb trailer iff
\* the aspect list is non-empty; when it is empty the last line is the 12th
\* House row; the text always ends with exactly one newline.
C9_ReportTail ==
  pc = "done" =>
    LET t == response.text
        last == t[Len(t) - 1]
    IN  /\ HasText(t, "Major aspects") <=> Len(aspects) > 0
        /\ HasText(t, "Numbers indicate orb (deviation from the exact aspect angle).")
             <=> Len(aspects) > 0
        /\ Len(RowsOf(t, "aspect")) = Len(aspects)
        /\ Len(t) >= 2
        /\ t[Len(t)].kind = "nl"
        /\ last.kind # "nl"
        /\ Len(aspects) = 0 => last.kind = "house" /\ last.label = "12th House"
        /\ Len(aspects) > 0 =>
             /\ last.kind = "text"
             /\ last.s = "Numbers indicate orb (deviation from the exact aspect angle)."

\* C9 witness: a report of a chart without any aspect
C9_WitnessNoAspects ==
  /\ pc = "done"
  /\ Len(aspects) = 0
  /\ response.status = 200
  /\ response.text[Len(response.text) - 1].kind = "house"
  /\ response.text[Len(response.text)].kind = "nl"

HouseRowOf(text, label) ==
  LET r == SelectSeq(text, LAMBDA t : t.kind = "house" /\ t.label = label)
  IN  r[1]

\* C10 as stated: the Imum Coeli row shows the 4th-house point (4th cusp,
\* Midheaven + 180 degrees) with its own sign and degree, the Medium Coeli
\* row shows the Midheaven, and the two rows never show the same sign and
\* degree.
C10_ImumCoeliIsFourthHouse ==
  pc = "done" =>
    LET ic == HouseRowOf(response.text, "Imum Coeli")
        mc == HouseRowOf(response.text, "Medium Coeli")
        mid == ascmc[2] % Deg(360)
        anti == (mid + Deg(180)) % Deg(360)
    IN  /\ mc.sign = _sign_of(mid) /\ mc.degree_str = _deg_to_dms_str(mid)
        /\ \/ ic.sign = _sign_of(anti) /\ ic.degree_str = _deg_to_dms_str(anti)
           \/ /\ ic.sign = points[1].HOUSES[4].sign
              /\ ic.degree_str = points[1].HOUSES[4].degree_str
        /\ ~(ic.sign = mc.sign /\ ic.degree_str = mc.degree_str)

HouseLabels ==
  << "Ascendant", "2nd House", "3rd House", "Imum Coeli", "5th House",
     "6th House", "Descendant", "8th House", "9th House", "Medium Coeli",
     "11th House", "12th House" >>

\* C11: for every Ascendant longitude the sign of the Descendant row is the
\* sign six positions after the Ascendant's sign (index + 6 mod 12), and the
\* house table has exactly 12 rows in the order Ascendant, 2nd, 3rd, Imum
\* Coeli, 5th, 6th, Descendant, 8th, 9th, Medium Coeli, 11th, 12th.
C11_DescendantOppositeAscendant ==
  ret.done =>
    LET rows == RowsOf(ret.val, "house")
        ascIndex == (args.ascmc[1] % Deg(360)) \div Deg(30)
    IN  /\ Len(rows) = 12
        /\ \A n \in 1..12 : rows[n].label = HouseLabels[n]
        /\ rows[1].sign = SIGNS[ascIndex + 1]
        /\ rows[7].sign = SIGNS[((ascIndex + 6) % 12) + 1]
        /\ Len(SelectSeq(ret.val, LAMBDA t : t.kind # "nl")) = 13

\* C11 witness: an Ascendant in Pisces, whose opposite sign Virgo is found by
\* wrapping round the sign table, with the 7th cusp in another sign
C11_WitnessPiscesAscendant ==
  /\ ret.done
  /\ args.ascmc[1] = Deg(345)
  /\ RowsOf(ret.val, "house")[1].sign = "Pisces"
  /\ RowsOf(ret.val, "house")[7].sign = "Virgo"
  /\ _sign_of(args.cusps[7]) # "Virgo"

\* C12: for every angle of [0,360) on the grid the minutes and the seconds
\* of _deg_to_dms_str are each in 0..59 (60 seconds carry into the minutes,
\* 60 minutes into the degrees), and D + M/60 + S/3600 differs from the
\* input by less than one arcsecond (both sides in 1/100 arcsecond here).
C12_DmsFieldsAndRoundTrip ==
  ret.done =>
    LET d == ret.val[1]
        m == ret.val[2]
        sec == ret.val[3]
    IN  /\ m \in 0..59
        /\ sec \in 0..59
        /\ Abs((d * 3600 + m * 60 + sec) * 100 - args.deg * 36) < 100

\* C12 witness: 359.9999 degrees rounds to 60 seconds, which carries into
\* 60 minutes, which carry into the degrees
C12_WitnessDoubleCarry ==
  /\ ret.done
  /\ args.deg = Deg(359) + 9999
  /\ ret.val = << 360, 0, 0 >>

\* C13: for every raw value of the provider, negative values and values of
\* 360 and more included, the stored longitude lies in [0,360), equals the
\* raw value modulo 360 and is unchanged when the raw value is shifted by a
\* multiple of 360; the stored house is in 1..12 and the stored sign is the
\* sign at index floor(longitude / 30).
C13_StoredLongitudeNormalized ==
  ret.done =>
    /\ \A e \in { ret.val.body.lon, ret.val.point.lon } :
         /\ e \in 0..(Deg(360) - 1)
         /\ (e - args.raw.grid) % Deg(360) = 0
    /\ ret.val.shifted.lon = ret.val.body.lon
    /\ ret.val.body.house \in 1..12
    /\ ret.val.body.sign = SIGNS[(ret.val.body.lon \div Deg(30)) + 1]
    /\ ret.val.point.sign = SIGNS[(ret.val.point.lon \div Deg(30)) + 1]

\* the kinds of the catalogue whose window holds the separation diff
KindsHolding(diff) ==
  { n \in DOMAIN MAJOR_ASPECTS :
      Abs(diff - MAJOR_ASPECTS[n].angle) <= ASPECT_ORBS[MAJOR_ASPECTS[n].name] }

\* C14: the windows |diff - angle| <= maxOrb of the catalogue are pairwise
\* disjoint, so at most one kind holds a separation, _find_major_aspects
\* emits at most one match per pair of bodies and at most 55 matches for
\* the 11 bodies.
C14_AtMostOneAspectPerPair ==
  /\ \A m \in DOMAIN MAJOR_ASPECTS : \A n \in DOMAIN MAJOR_ASPECTS :
       m # n =>
         Abs(MAJOR_ASPECTS[m].angle - MAJOR_ASPECTS[n].angle)
           > ASPECT_ORBS[MAJOR_ASPECTS[m].name] + ASPECT_ORBS[MAJOR_ASPECTS[n].name]
  /\ (args.fn = "_find_major_aspects" /\ ret.done) =>
       /\ \A i \in Bodies : \A j \in Bodies : i < j =>
            /\ Cardinality(KindsHolding(Sep(args.lon[i], args.lon[j]))) <= 1
            /\ Cardinality(MatchesOf(ret.val, i, j)) <= 1
       /\ Len(ret.val) <= 55

\* C14 witness: every one of the 55 pairs is in aspect, Sextiles among
\* them, and the list has exactly 55 matches
C14_WitnessAllPairsInAspect ==
  /\ args.fn = "_find_major_aspects"
  /\ ret.done
  /\ Len(ret.val) = 55
  /\ \E n \in DOMAIN ret.val : ret.val[n].asp = "Sextile"
  /\ \E n \in DOMAIN ret.val : ret.val[n].asp = "Conjunction"

\* twelve cusps pairwise distinct and in circular order: exactly one of the
\* 12 consecutive intervals crosses 0 degrees
CircularOrder(cs) ==
  /\ Len(cs) = 12
  /\ \A g \in 1..12 : \A h \in 1..12 :
       g # h => cs[g] % Deg(360) # cs[h] % Deg(360)
  /\ Cardinality({ h \in 1..12 :
                     cs[h] % Deg(360) > cs[(h % 12) + 1] % Deg(360) }) = 1

\* C15: for 12 cusps pairwise distinct and in circular order every longitude
\* satisfies the interval test of exactly one house; house_of returns that
\* house, never through its fallback, and a longitude equal to cusp i is
\* placed in house i.
C15_WellFormedCuspsPartition ==
  (ret.done /\ CircularOrder(args.cusps)) =>
    LET x == args.l % Deg(360)
    IN  /\ Cardinality(HousesHolding(args.cusps, x)) = 1
        /\ ret.val.exc = ""
        /\ ret.val.val \in HousesHolding(args.cusps, x)
        /\ \A h \in 1..12 : x = args.cusps[h] % Deg(360) => ret.val.val = h

\* C15 witness: a longitude on the first cusp after 0 degrees, whose
\* preceding interval is the one crossing 0, placed in that cusp's house
C15_WitnessOnCuspAfterWrap ==
  /\ ret.done
  /\ CircularOrder(args.cusps)
  /\ \E h \in 2..12 :
       /\ args.cusps[h - 1] % Deg(360) > args.cusps[h] % Deg(360)
       /\ args.l % Deg(360) = args.cusps[h] % Deg(360)
       /\ ret.val.val = h

\* C16: for every local time 00:00..23:59 and every offset from -12 to +14
\* hours the printed U.T. is a time of day, HH in 00..23 and MM in 00..59,
\* equal to local time minus offset modulo 24 hours (23:05 at UTC-3 gives
\* 02:05, 01:00 at UTC+3 gives 22:00).
C16_UtIsTimeOfDay ==
  ret.done =>
    LET tod == (args.hour * 60 + args.minute - args.tz) % (24 * 60)
    IN  /\ ret.val.h \in 0..23
        /\ ret.val.m \in 0..59
        /\ ret.val.h = tod \div 60
        /\ ret.val.m = tod % 60

====
